---- MODULE Spec2Model ----
\* LNP transport layer (src/lnp/transport.rs): NodeAddr parsing/formatting and
\* the outbound connection procedure Connection::new with its BOLT-8 handshake
\* loop.  Two specifications:
\*   Spec      Connection::new, one action per suspension point of the async fn,
\*             the peer and PeerHandshake::process_act being external;
\*   SpecAddr  NodeAddr::from_str / Display over a bounded set of address strings.
EXTENDS Integers, Sequences, FiniteSets, TLC

\* ------------------------------------------------------------------ bounds
\* Cap on the handshake loop counter `step` (the loop itself is unbounded).
MaxStep == 3
\* By how many bytes a reply of the peer is longer or shorter than one Act;
\* also the size of a short read and of a partial write.
MaxSlack == 1

\* --------------------------------------------------------------- constants
\* Size of Act 1 / Act 2 on the wire (version + ephemeral key + tag).
ActTwoLen == 50

\* Size of Act 3 on the wire.
ActThreeLen == 66

\* Steady-state frame: encrypted length, its tag, the payload, its tag.
FrameLengthBytes == 2
TagBytes == 16
MaxPayloadBytes == 65535

\* Mutant of MAX_TRANSPORT_FRAME_SIZE: the tag of the payload is left out.
MaxFrameWithoutPayloadTag == FrameLengthBytes + TagBytes + MaxPayloadBytes

\* pub const MAX_TRANSPORT_FRAME_SIZE: usize = 65569;
MAX_TRANSPORT_FRAME_SIZE == 65569

\* Vec::reserve(additional) on a vector of length len: the capacity is then
\* at least len + additional.
reserve(len, additional) == len + additional

\* let mut buf = vec![]; buf.reserve(MAX_TRANSPORT_FRAME_SIZE);
BufCapacity == reserve(0, MAX_TRANSPORT_FRAME_SIZE)

LIGHTNING_P2P_DEFAULT_PORT == 9735

\* u16::MAX
U16Max == 65535

VARIABLES
    \* ---- Connection::new
    pc,         \* position inside Connection::new
    node,       \* the &NodeAddr argument
    result,     \* "pending" or the variant the call returned
    conn,       \* the Connection value returned, or NoConn
    stream,     \* "none" | "open" : the TcpStream local
    handshake,  \* the PeerHandshake local: "none" | "active" | "resolved"
    step,       \* let mut step
    input,      \* let mut input: &[u8]
    buf,        \* let mut buf: Vec<u8>
    act,        \* the Act returned by the last process_act, or NoAct
    acts,       \* every Act process_act has emitted, in order
    sent,       \* every Act written to the stream, in order
    wire,       \* bytes the peer has sent and that are not read yet
    replies,    \* number of replies the peer has sent
    peerClosed, \* the peer has closed its side of the stream
    log,        \* the operations performed, in order
    \* ---- NodeAddr::from_str / Display
    apc,        \* position of the address round trip
    str,        \* the address string under test
    kind,       \* how `str` was built: which fragment, if any, is malformed
    parsed,     \* from_str(str)
    shown,      \* to_string of parsed
    reparsed,   \* from_str(shown)
    reshown     \* to_string of reparsed

cvars == <<pc, node, result, conn, stream, handshake, step, input, buf, act,
           acts, sent, wire, replies, peerClosed, log>>
avars == <<apc, str, kind, parsed, shown, reparsed, reshown>>
vars == <<cvars, avars>>

\* ------------------------------------------------------------ sequences
Take(s, n) == SubSeq(s, 1, n)
Drop(s, n) == SubSeq(s, n + 1, Len(s))

\* ------------------------------------------------------------ byte strings
\* A byte string is kept as its runs: <<[tag, n], ...>> stands for n bytes
\* marked `tag`, then the next run; runs are non-empty and neighbours differ.
Run(tag, n) == IF n = 0 THEN <<>> ELSE <<[tag |-> tag, n |-> n]>>

RECURSIVE BLen(_)
BLen(b) == IF b = <<>> THEN 0 ELSE Head(b).n + BLen(Tail(b))

BCat(a, b) ==
    IF a = <<>> THEN b
    ELSE IF b = <<>> THEN a
    ELSE IF a[Len(a)].tag = b[1].tag
    THEN SubSeq(a, 1, Len(a) - 1)
             \o <<[tag |-> b[1].tag, n |-> a[Len(a)].n + b[1].n]>>
             \o Tail(b)
    ELSE a \o b

\* The first n bytes of b (all of b when it has fewer).
RECURSIVE BTake(_, _)
BTake(b, n) ==
    IF n = 0 \/ b = <<>> THEN <<>>
    ELSE IF Head(b).n <= n
    THEN <<Head(b)>> \o BTake(Tail(b), n - Head(b).n)
    ELSE Run(Head(b).tag, n)

\* b without its first n bytes.
RECURSIVE BDrop(_, _)
BDrop(b, n) ==
    IF n = 0 \/ b = <<>> THEN b
    ELSE IF Head(b).n <= n THEN BDrop(Tail(b), n - Head(b).n)
    ELSE <<[tag |-> Head(b).tag, n |-> Head(b).n - n]>> \o Tail(b)

\* ------------------------------------------------------------ characters
\* A string is a sequence of one-character strings.
DigitChars == <<"0", "1", "2", "3", "4", "5", "6", "7", "8", "9">>
IsDigit(c) == \E i \in 1..Len(DigitChars) : DigitChars[i] = c
DigitVal(c) == (CHOOSE i \in 1..Len(DigitChars) : DigitChars[i] = c) - 1

ParseErr == [ok |-> FALSE]
ParseOk(v) == [ok |-> TRUE, val |-> v]

\* str::split(sep): the fragments between the separators, empty ones included.
RECURSIVE Split(_, _)
Split(s, sep) ==
    IF \E i \in 1..Len(s) : s[i] = sep
    THEN LET i == CHOOSE k \in 1..Len(s) :
                      s[k] = sep /\ \A j \in 1..(k - 1) : s[j] # sep
         IN <<Take(s, i - 1)>> \o Split(Drop(s, i), sep)
    ELSE <<s>>

RECURSIVE Join(_, _)
Join(parts, sep) ==
    IF Len(parts) = 0 THEN <<>>
    ELSE IF Len(parts) = 1 THEN parts[1]
    ELSE parts[1] \o <<sep>> \o Join(Tail(parts), sep)

\* Checked decimal accumulation of core::num::from_str_radix.
RECURSIVE ParseDigits(_, _, _)
ParseDigits(s, acc, max) ==
    IF s = <<>> THEN ParseOk(acc)
    ELSE IF ~IsDigit(Head(s)) THEN ParseErr
    ELSE LET v == acc * 10 + DigitVal(Head(s))
         IN IF v > max THEN ParseErr ELSE ParseDigits(Tail(s), v, max)

\* <u16 as FromStr>::from_str: an optional '+', then one or more digits, the
\* value at most u16::MAX.
parse_u16(s) ==
    IF s = <<>> THEN ParseErr
    ELSE LET digits == IF Head(s) = "+" THEN Tail(s) ELSE s
         IN IF digits = <<>> THEN ParseErr ELSE ParseDigits(digits, 0, U16Max)

\* Display of an unsigned integer: decimal, no sign, no leading zero.
RECURSIVE FmtNat(_)
FmtNat(n) ==
    IF n < 10 THEN <<DigitChars[n + 1]>>
    ELSE FmtNat(n \div 10) \o <<DigitChars[(n % 10) + 1]>>

\* ------------------------------------------------------------ node id
\* secp256k1::PublicKey text forms, shortened: hex of either case decodes to
\* the key, Display writes lower-case hex.
KeyTexts ==
    << [text |-> <<"0", "2", "a", "b">>, key |-> "K1"],
       [text |-> <<"0", "2", "A", "B">>, key |-> "K1"],
       [text |-> <<"0", "3", "c", "d">>, key |-> "K2"] >>

PublicKey_from_str(s) ==
    IF \E i \in 1..Len(KeyTexts) : KeyTexts[i].text = s
    THEN ParseOk(KeyTexts[CHOOSE i \in 1..Len(KeyTexts) : KeyTexts[i].text = s].key)
    ELSE ParseErr

PublicKey_to_string(k) ==
    KeyTexts[CHOOSE i \in 1..Len(KeyTexts) :
                 /\ KeyTexts[i].key = k
                 /\ \A j \in 1..(i - 1) : KeyTexts[j].key # k].text

\* ------------------------------------------------------------ InetAddr
\* Ipv4Addr::from_str: four decimal octets separated by dots.
Ipv4_from_str(s) ==
    LET parts == Split(s, ".")
        oct(i) == IF parts[i] = <<>> \/ Len(parts[i]) > 3 THEN ParseErr
                  ELSE ParseDigits(parts[i], 0, 255)
    IN IF Len(parts) = 4 /\ \A i \in 1..4 : oct(i).ok
       THEN ParseOk([kind |-> "IPv4", val |-> [i \in 1..4 |-> oct(i).val]])
       ELSE ParseErr

\* Ipv6Addr text forms the model knows, with the address each denotes.
Ipv6Texts ==
    << [text |-> <<":", ":", "1">>, val |-> "loopback6"],
       [text |-> <<"f", "e", "8", "0", ":", ":", "1">>, val |-> "linklocal6"] >>

Ipv6_from_str(s) ==
    IF \E i \in 1..Len(Ipv6Texts) : Ipv6Texts[i].text = s
    THEN ParseOk([kind |-> "IPv6",
                  val |-> Ipv6Texts[CHOOSE i \in 1..Len(Ipv6Texts) :
                                        Ipv6Texts[i].text = s].val])
    ELSE ParseErr

\* Tor-v3 onion text forms the model knows (the base32 label shortened).
OnionTexts ==
    << [text |-> <<"a", "b", "2", ".", "o", "n", "i", "o", "n">>,
        val |-> "onion1"] >>

Onion_from_str(s) ==
    IF \E i \in 1..Len(OnionTexts) : OnionTexts[i].text = s
    THEN ParseOk([kind |-> "Tor",
                  val |-> OnionTexts[CHOOSE i \in 1..Len(OnionTexts) :
                                         OnionTexts[i].text = s].val])
    ELSE ParseErr

\* InetAddr::from_str: IPv4 literal, then IPv6 literal, then onion literal.
InetAddr_from_str(s) ==
    IF Ipv4_from_str(s).ok THEN Ipv4_from_str(s)
    ELSE IF Ipv6_from_str(s).ok THEN Ipv6_from_str(s)
    ELSE Onion_from_str(s)

InetAddr_to_string(a) ==
    IF a.kind = "IPv4" THEN Join([i \in 1..4 |-> FmtNat(a.val[i])], ".")
    ELSE IF a.kind = "IPv6"
    THEN Ipv6Texts[CHOOSE i \in 1..Len(Ipv6Texts) : Ipv6Texts[i].val = a.val].text
    ELSE OnionTexts[CHOOSE i \in 1..Len(OnionTexts) : OnionTexts[i].val = a.val].text

\* InetAddr::is_tor
is_tor(a) == a.kind = "Tor"

\* InetSocketAddr::new
InetSocketAddr_new(address, port) == [address |-> address, port |-> port]

\* Display for InetSocketAddr: address ':' port.
InetSocketAddr_to_string(a) ==
    InetAddr_to_string(a.address) \o <<":">> \o FmtNat(a.port)

\* ------------------------------------------------------------ NodeAddr
\* Mutant of SplitIdInet: whatever follows a second '@' is ignored.
SplitIdInetLax(s) ==
    LET p == Split(s, "@")
    IN IF Len(p) >= 2 THEN ParseOk([id |-> p[1], inet |-> p[2]]) ELSE ParseErr

\* from_str, the split on '@': exactly two fragments.
SplitIdInet(s) ==
    LET p == Split(s, "@")
    IN IF Len(p) = 2 THEN ParseOk([id |-> p[1], inet |-> p[2]]) ELSE ParseErr

\* from_str, the split on ':': one fragment (default port) or two (address
\* and port); three or more fragments are an error.
SplitAddrPort(inet) ==
    LET q == Split(inet, ":")
    IN IF Len(q) = 2
       THEN LET port == parse_u16(q[2])
            IN IF port.ok THEN ParseOk([addr |-> q[1], port |-> port.val])
               ELSE ParseErr
       ELSE IF Len(q) = 1
       THEN ParseOk([addr |-> q[1], port |-> LIGHTNING_P2P_DEFAULT_PORT])
       ELSE ParseErr

\* <NodeAddr as FromStr>::from_str
NodeAddr_from_str(s) ==
    LET a == SplitIdInet(s)
    IN IF ~a.ok THEN ParseErr
       ELSE LET b == SplitAddrPort(a.val.inet)
            IN IF ~b.ok THEN ParseErr
               ELSE LET id == PublicKey_from_str(a.val.id)
                        ad == InetAddr_from_str(b.val.addr)
                    IN IF ~id.ok \/ ~ad.ok THEN ParseErr
                       ELSE ParseOk([node_id |-> id.val,
                                     inet_addr |->
                                         InetSocketAddr_new(ad.val, b.val.port)])

\* <NodeAddr as Display>::fmt: node_id '@' inet_addr
NodeAddr_to_string(n) ==
    PublicKey_to_string(n.node_id) \o <<"@">>
        \o InetSocketAddr_to_string(n.inet_addr)


\* ------------------------------------------------------------ address inputs
\* The strings under test are built as  id  at  host  port  from the fragments
\* below; `tag` says what the address grammar makes of the fragment.
IdFrags ==
    { [text |-> <<"0", "2", "a", "b">>, tag |-> "ok", key |-> "K1"],
      [text |-> <<"0", "2", "A", "B">>, tag |-> "ok", key |-> "K1"],
      [text |-> <<"0", "3", "c", "d">>, tag |-> "ok", key |-> "K2"],
      [text |-> <<"0", "2", "z">>, tag |-> "bad", key |-> "none"],
      [text |-> <<>>, tag |-> "bad", key |-> "none"] }

AtFrags ==
    { [text |-> <<"@">>, tag |-> "ok"],
      [text |-> <<>>, tag |-> "missing"],
      [text |-> <<"@", "@">>, tag |-> "double"] }

HostFrags ==
    { [text |-> <<"1", ".", "2", ".", "3", ".", "4">>, tag |-> "IPv4"],
      [text |-> <<"1", "0", ".", "0", ".", "0", ".", "2", "5", "5">>,
       tag |-> "IPv4"],
      [text |-> <<":", ":", "1">>, tag |-> "IPv6"],
      [text |-> <<"f", "e", "8", "0", ":", ":", "1">>, tag |-> "IPv6"],
      [text |-> <<"a", "b", "2", ".", "o", "n", "i", "o", "n">>, tag |-> "Tor"],
      [text |-> <<"1", ".", "2", ".", "3">>, tag |-> "bad"],
      [text |-> <<"2", "5", "6", ".", "1", ".", "1", ".", "1">>, tag |-> "bad"],
      [text |-> <<"h", "o", "s", "t">>, tag |-> "bad"],
      [text |-> <<>>, tag |-> "bad"] }

PortFrags ==
    { [text |-> <<>>, tag |-> "absent", port |-> 0],
      [text |-> <<":", "9", "7", "3", "5">>, tag |-> "ok", port |-> 9735],
      [text |-> <<":", "8", "0">>, tag |-> "ok", port |-> 80],
      [text |-> <<":", "0", "0", "8", "0">>, tag |-> "ok", port |-> 80],
      [text |-> <<":", "+", "8", "0">>, tag |-> "ok", port |-> 80],
      [text |-> <<":", "0">>, tag |-> "ok", port |-> 0],
      [text |-> <<":", "6", "5", "5", "3", "5">>, tag |-> "ok", port |-> 65535],
      [text |-> <<":", "6", "5", "5", "3", "6">>, tag |-> "bad", port |-> 0],
      [text |-> <<":">>, tag |-> "bad", port |-> 0],
      [text |-> <<":", "8", "x">>, tag |-> "bad", port |-> 0],
      [text |-> <<":", "-", "1">>, tag |-> "bad", port |-> 0],
      [text |-> <<":", "8", "0", ":", "8", "1">>, tag |-> "bad", port |-> 0],
      [text |-> <<"@", "x">>, tag |-> "bad", port |-> 0],
      [text |-> <<":", "8", "0", "@", "x">>, tag |-> "bad", port |-> 0] }

NoAddr == [ok |-> FALSE]
NoStr == <<"?">>

\* A string the grammar  <node_id>@<host>[:<port>]  accepts.
ValidKind(k) ==
    /\ k.id = "ok"
    /\ k.at = "ok"
    /\ k.host \in {"IPv4", "IPv6", "Tor"}
    /\ k.port \in {"ok", "absent"}

AddrInit ==
    /\ apc = "input"
    /\ \E i \in IdFrags, a \in AtFrags, h \in HostFrags, p \in PortFrags :
          /\ str = i.text \o a.text \o h.text \o p.text
          /\ kind = [id |-> i.tag, at |-> a.tag, host |-> h.tag, port |-> p.tag,
                     key |-> i.key, portval |-> p.port]
    /\ parsed = NoAddr
    /\ shown = NoStr
    /\ reparsed = NoAddr
    /\ reshown = NoStr

AddrIdle ==
    /\ apc = "off"
    /\ str = NoStr
    /\ kind = [id |-> "bad", at |-> "missing", host |-> "bad", port |-> "bad",
               key |-> "none", portval |-> 0]
    /\ parsed = NoAddr
    /\ shown = NoStr
    /\ reparsed = NoAddr
    /\ reshown = NoStr

\* let n = NodeAddr::from_str(str)
Parse ==
    /\ apc = "input"
    /\ parsed' = NodeAddr_from_str(str)
    /\ apc' = "parsed"
    /\ UNCHANGED <<str, kind, shown, reparsed, reshown>>

\* let t = n.to_string()
Format ==
    /\ apc = "parsed"
    /\ parsed.ok
    /\ shown' = NodeAddr_to_string(parsed.val)
    /\ apc' = "shown"
    /\ UNCHANGED <<str, kind, parsed, reparsed, reshown>>

\* let m = NodeAddr::from_str(t)
Reparse ==
    /\ apc = "shown"
    /\ reparsed' = NodeAddr_from_str(shown)
    /\ apc' = "reparsed"
    /\ UNCHANGED <<str, kind, parsed, shown, reshown>>

\* let u = m.to_string()
Reformat ==
    /\ apc = "reparsed"
    /\ reparsed.ok
    /\ reshown' = NodeAddr_to_string(reparsed.val)
    /\ apc' = "reshown"
    /\ UNCHANGED <<str, kind, parsed, shown, reparsed>>


\* ------------------------------------------------------------ Connection::new
NoConn == [established |-> FALSE]
NoAct == [kind |-> "none", seq |-> 0]

\* The NodeAddr values Connection::new is called with.
NodeAddrs ==
    { [node_id |-> "K1", inet_addr |-> InetSocketAddr_new(a, LIGHTNING_P2P_DEFAULT_PORT)] :
        a \in { [kind |-> "IPv4", val |-> <<1, 2, 3, 4>>],
                [kind |-> "IPv6", val |-> "loopback6"],
                [kind |-> "Tor", val |-> "onion1"] } }

\* What PeerHandshake::process_act may return: Err(msg), or Ok((act, enc)) with
\* each of the two options present or absent.
ProcessActResults == {"err", "act", "enc", "act+enc", "none"}
HasAct(r) == r \in {"act", "act+enc"}
HasEnc(r) == r \in {"enc", "act+enc"}

\* The Act an initiator's handshake emits on the call made at loop step `st`:
\* Act 1 on the first call, Act 3 afterwards; `seq` numbers the emitted Acts.
ActOf(st, seq) == [kind |-> IF st = 0 THEN "One" ELSE "Three", seq |-> seq]

\* Act::serialize: 50 bytes for Act 1, 66 for Act 3, each byte marked with
\* the Act it belongs to.
serialize(a) == Run(a.seq, IF a.kind = "One" THEN ActTwoLen ELSE ActThreeLen)

RECURSIVE Concat(_)
Concat(ss) == IF ss = <<>> THEN <<>> ELSE BCat(Head(ss), Concat(Tail(ss)))

\* One entry of `log`: the operation, the loop step it belongs to, its result,
\* the number of bytes it handled, the bytes waiting on the wire when it
\* started, and the bytes themselves (for a read: the bytes the stream
\* delivered; for process_act: the input it was given).
EventData(op, out, len, data) ==
    [op |-> op, step |-> step, len |-> len, out |-> out, left |-> BLen(wire),
     data |-> data]

Event(op, out, len) == EventData(op, out, len, <<>>)

Logged(op, out, len) == log' = Append(log, Event(op, out, len))

LoggedData(op, out, data) ==
    log' = Append(log, EventData(op, out, BLen(data), data))

Count(op, out) ==
    Cardinality({i \in DOMAIN log : log[i].op = op /\ log[i].out = out})

\* The function returns Err(e): its locals (stream, handshake, buf) are dropped.
ReturnErr(e) ==
    /\ pc' = "done"
    /\ result' = e
    /\ stream' = IF stream = "open" THEN "closed" ELSE stream
    /\ handshake' = IF handshake = "active" THEN "dropped" ELSE handshake
    /\ act' = NoAct

ConnInit ==
    /\ pc = "start"
    /\ node \in NodeAddrs
    /\ result = "pending"
    /\ conn = NoConn
    /\ stream = "none"
    /\ handshake = "none"
    /\ step = 0
    /\ input = <<>>
    /\ buf = <<>>
    /\ act = NoAct
    /\ acts = <<>>
    /\ sent = <<>>
    /\ wire = <<>>
    /\ replies = 0
    /\ peerClosed = FALSE
    /\ log = <<>>

ConnIdle ==
    /\ pc = "off"
    /\ node = [node_id |-> "K1",
               inet_addr |-> InetSocketAddr_new([kind |-> "IPv4", val |-> <<1, 2, 3, 4>>],
                                                LIGHTNING_P2P_DEFAULT_PORT)]
    /\ result = "pending"
    /\ conn = NoConn
    /\ stream = "none"
    /\ handshake = "none"
    /\ step = 0
    /\ input = <<>>
    /\ buf = <<>>
    /\ act = NoAct
    /\ acts = <<>>
    /\ sent = <<>>
    /\ wire = <<>>
    /\ replies = 0
    /\ peerClosed = FALSE
    /\ log = <<>>

\* Mutant of TorCheck: the onion test is missing.
TorCheckSkipped ==
    /\ pc = "start"
    /\ pc' = "connect"
    /\ UNCHANGED <<node, result, conn, stream, handshake, step, input, buf,
                   act, acts, sent, wire, replies, peerClosed, log>>

\* if node.inet_addr.address.is_tor() { Err(TorNotYetSupported)? }
TorCheck ==
    /\ pc = "start"
    /\ IF is_tor(node.inet_addr.address)
       THEN /\ ReturnErr("TorNotYetSupported")
            /\ UNCHANGED <<node, conn, step, input, buf, acts, sent, wire,
                           replies, peerClosed, log>>
       ELSE /\ pc' = "connect"
            /\ UNCHANGED <<node, result, conn, stream, handshake, step, input,
                           buf, act, acts, sent, wire, replies, peerClosed, log>>

\* Mutant of Connect: the handshake is set up before the result of the
\* connect is looked at, so it starts even when the connect failed.
ConnectUnchecked ==
    /\ pc = "connect"
    /\ \E out \in {"ok", "ioerr"} :
          /\ Logged("connect", out, 0)
          /\ stream' = IF out = "ok" THEN "open" ELSE "none"
    /\ handshake' = "active"
    /\ step' = 0
    /\ input' = <<>>
    /\ buf' = <<>>
    /\ pc' = "process_act"
    /\ UNCHANGED <<node, result, conn, act, acts, sent, wire, replies,
                   peerClosed>>

\* TcpStream::connect(socket_addr).await? and, on success, the locals set up
\* before the loop: new_outbound, step = 0, input = &[], buf = vec![].
Connect ==
    /\ pc = "connect"
    /\ \/ /\ Logged("connect", "ok", 0)
          /\ stream' = "open"
          /\ handshake' = "active"
          /\ step' = 0
          /\ input' = <<>>
          /\ buf' = <<>>
          /\ pc' = "process_act"
          /\ UNCHANGED <<node, result, conn, act, acts, sent, wire, replies,
                         peerClosed>>
       \/ /\ Logged("connect", "ioerr", 0)
          /\ ReturnErr("IoError")
          /\ UNCHANGED <<node, conn, step, input, buf, acts, sent, wire,
                         replies, peerClosed>>

\* Mutant of OnProcessAct: an Err from process_act is not propagated, the loop
\* goes on to wait for the peer.
OnProcessActErrIgnored(r) ==
    IF r = "err"
    THEN /\ pc' = "read"
         /\ UNCHANGED <<result, conn, stream, handshake, act, acts>>
    ELSE IF HasEnc(r)
    THEN /\ pc' = "done"
         /\ result' = "Ok"
         /\ conn' = [established |-> TRUE, stream |-> stream, outbound |-> TRUE,
                     encryptor |-> "enc"]
         /\ stream' = "moved"
         /\ handshake' = "resolved"
         /\ acts' = IF HasAct(r) THEN Append(acts, ActOf(step, Len(acts) + 1))
                    ELSE acts
         /\ act' = NoAct
    ELSE IF HasAct(r)
    THEN /\ pc' = "write"
         /\ act' = ActOf(step, Len(acts) + 1)
         /\ acts' = Append(acts, ActOf(step, Len(acts) + 1))
         /\ UNCHANGED <<result, conn, stream, handshake>>
    ELSE /\ ReturnErr("FailedHandshake")
         /\ UNCHANGED <<conn, acts>>

\* Mutant of OnProcessAct: the two branches are tested in the other order, so
\* an Act is always written and the loop goes on even when the encryptor came
\* with it.
OnProcessActActFirst(r) ==
    IF r = "err"
    THEN /\ ReturnErr("FailedHandshake")
         /\ UNCHANGED <<conn, acts>>
    ELSE IF HasAct(r)
    THEN /\ pc' = "write"
         /\ act' = ActOf(step, Len(acts) + 1)
         /\ acts' = Append(acts, ActOf(step, Len(acts) + 1))
         /\ handshake' = IF HasEnc(r) THEN "resolved" ELSE handshake
         /\ UNCHANGED <<result, conn, stream>>
    ELSE IF HasEnc(r)
    THEN /\ pc' = "done"
         /\ result' = "Ok"
         /\ conn' = [established |-> TRUE, stream |-> stream, outbound |-> TRUE,
                     encryptor |-> "enc"]
         /\ stream' = "moved"
         /\ handshake' = "resolved"
         /\ act' = NoAct
         /\ UNCHANGED acts
    ELSE /\ ReturnErr("FailedHandshake")
         /\ UNCHANGED <<conn, acts>>

\* Mutant of OnProcessAct: a result with neither an Act nor an encryptor is
\* taken as "nothing to send yet" and the loop goes on to read.
OnProcessActNoneContinues(r) ==
    IF r = "err"
    THEN /\ ReturnErr("FailedHandshake")
         /\ UNCHANGED <<conn, acts>>
    ELSE IF HasEnc(r)
    THEN /\ pc' = "done"
         /\ result' = "Ok"
         /\ conn' = [established |-> TRUE, stream |-> stream, outbound |-> TRUE,
                     encryptor |-> "enc"]
         /\ stream' = "moved"
         /\ handshake' = "resolved"
         /\ acts' = IF HasAct(r) THEN Append(acts, ActOf(step, Len(acts) + 1))
                    ELSE acts
         /\ act' = NoAct
    ELSE IF HasAct(r)
    THEN /\ pc' = "write"
         /\ act' = ActOf(step, Len(acts) + 1)
         /\ acts' = Append(acts, ActOf(step, Len(acts) + 1))
         /\ UNCHANGED <<result, conn, stream, handshake>>
    ELSE /\ pc' = "read"
         /\ UNCHANGED <<result, conn, stream, handshake, act, acts>>

\* What the loop body does with the result r of process_act:
\*   Err(msg)      -> return Err(FailedHandshake(msg))
\*   enc is Some   -> break Ok(encryptor); the function returns Ok(Connection)
\*   act is Some   -> go on to write_all(act.serialize())
\*   neither       -> return Err(FailedHandshake("... non-standard result"))
OnProcessAct(r) ==
    IF r = "err"
    THEN /\ pc' = "done"
         /\ result' = "FailedHandshake"
         /\ stream' = "closed"
         /\ handshake' = "resolved"
         /\ act' = NoAct
         /\ UNCHANGED <<conn, acts>>
    ELSE IF HasEnc(r)
    THEN /\ pc' = "done"
         /\ result' = "Ok"
         /\ conn' = [established |-> TRUE, stream |-> stream, outbound |-> TRUE,
                     encryptor |-> "enc"]
         /\ stream' = "moved"
         /\ handshake' = "resolved"
         /\ acts' = IF HasAct(r) THEN Append(acts, ActOf(step, Len(acts) + 1))
                    ELSE acts
         /\ act' = NoAct
    ELSE IF HasAct(r)
    THEN /\ pc' = "write"
         /\ act' = ActOf(step, Len(acts) + 1)
         /\ acts' = Append(acts, ActOf(step, Len(acts) + 1))
         /\ UNCHANGED <<result, conn, stream, handshake>>
    ELSE /\ ReturnErr("FailedHandshake")
         /\ UNCHANGED <<conn, acts>>

\* let (act, enc) = handshake.process_act(input).map_err(FailedHandshake)?;
\* and the branch on its result.  The loop has no bound of its own: the model
\* stops offering "an Act and no encryptor" once step reaches MaxStep.
ProcessAct ==
    /\ pc = "process_act"
    /\ \E r \in ProcessActResults :
          /\ r = "act" => step < MaxStep
          /\ LoggedData("process_act", r, input)
          /\ OnProcessAct(r)
    /\ UNCHANGED <<node, step, input, buf, sent, wire, replies, peerClosed>>

\* stream.write_all(&act.serialize()).await?
WriteAll ==
    /\ pc = "write"
    /\ \/ /\ Logged("write", "ok", BLen(serialize(act)))
          /\ sent' = BCat(sent, serialize(act))
          /\ pc' = "read"
          /\ UNCHANGED <<node, result, conn, stream, handshake, step, input,
                         buf, act, acts, wire, replies, peerClosed>>
       \/ \E k \in {0, MaxSlack} :
          /\ Logged("write", "ioerr", k)
          /\ sent' = BCat(sent, BTake(serialize(act), k))
          /\ ReturnErr("IoError")
          /\ UNCHANGED <<node, conn, step, input, buf, acts, wire, replies,
                         peerClosed>>

\* The read sizes tried when `avail` bytes are waiting: a few bytes, exactly
\* one Act, everything.
ReadLens(avail) ==
    {n \in 1..avail : n = MaxSlack \/ n = ActTwoLen \/ n = avail}

\* Mutant of ReadFailed: a failed read counts as a read of zero bytes.
ReadFailedSwallowed ==
    /\ Logged("read", "ioerr", 0)
    /\ input' = BTake(buf, 0)
    /\ step' = step + 1
    /\ pc' = "process_act"
    /\ UNCHANGED <<node, result, conn, stream, handshake, buf, act, acts, sent,
                   wire, replies, peerClosed>>

\* stream.read_buf(&mut buf).await? returning Err
ReadFailed ==
    /\ Logged("read", "ioerr", 0)
    /\ ReturnErr("IoError")
    /\ UNCHANGED <<node, conn, step, input, buf, acts, sent, wire, replies,
                   peerClosed>>

\* let read_len = stream.read_buf(&mut buf).await?;   (appends to buf)
\* input = &buf[0..read_len];  step += 1;
ReadDone(n) ==
    /\ LoggedData("read", "ok", BTake(wire, n))
    /\ buf' = BCat(buf, BTake(wire, n))
    /\ wire' = BDrop(wire, n)
    /\ input' = BTake(buf', n)
    /\ step' = step + 1
    /\ pc' = "process_act"
    /\ UNCHANGED <<node, result, conn, stream, handshake, act, acts, sent,
                   replies, peerClosed>>

\* The read completes with some of the waiting bytes, with 0 bytes at end of
\* stream, or with an error; it stays pending while nothing has arrived.
ReadBuf ==
    /\ pc = "read"
    /\ \/ \E n \in ReadLens(BLen(wire)) : ReadDone(n)
       \/ wire = <<>> /\ peerClosed /\ ReadDone(0)
       \/ ReadFailed

\* Mutant of Cancel: the handshake runs in a task of its own, so dropping the
\* caller's future stops nothing.
CancelDetached ==
    /\ pc \in {"connect", "write", "read"}
    /\ \A i \in DOMAIN log : log[i].op # "cancel"
    /\ Logged("cancel", "cancelled", BLen(sent))
    /\ UNCHANGED <<pc, node, result, conn, stream, handshake, step, input, buf,
                   act, acts, sent, wire, replies, peerClosed>>

\* The future of Connection::new is dropped while it is suspended at one of
\* its three .await points (connect, write_all, read_buf): the locals stream,
\* handshake and buf are dropped with it and nothing is returned.  A write
\* that was under way may already have put some bytes on the stream.
Cancel ==
    /\ pc \in {"connect", "write", "read"}
    /\ \A i \in DOMAIN log : log[i].op # "cancel"
    /\ \E k \in (IF pc = "write" THEN {0, MaxSlack} ELSE {0}) :
          /\ sent' = IF pc = "write" THEN BCat(sent, BTake(serialize(act), k))
                     ELSE sent
          /\ log' = Append(log, Event("cancel", "cancelled", BLen(sent')))
    /\ pc' = "cancelled"
    /\ stream' = IF stream = "open" THEN "closed" ELSE stream
    /\ handshake' = IF handshake = "active" THEN "dropped" ELSE handshake
    /\ act' = NoAct
    /\ UNCHANGED <<node, result, conn, step, input, buf, acts, wire, replies,
                   peerClosed>>

\* The peer answers an Act it has received with a message of about the size
\* of an Act; every byte is marked with the number of the reply.
PeerLens == {ActTwoLen - MaxSlack, ActTwoLen, ActTwoLen + MaxSlack}

PeerReply ==
    /\ stream = "open"
    /\ ~peerClosed
    /\ replies < Count("write", "ok")
    /\ \E n \in PeerLens : wire' = BCat(wire, Run(replies + 1, n))
    /\ replies' = replies + 1
    /\ UNCHANGED <<pc, node, result, conn, stream, handshake, step, input, buf,
                   act, acts, sent, peerClosed, log>>

\* The peer closes its side of the stream.
PeerClose ==
    /\ stream = "open"
    /\ ~peerClosed
    /\ peerClosed' = TRUE
    /\ UNCHANGED <<pc, node, result, conn, stream, handshake, step, input, buf,
                   act, acts, sent, wire, replies, log>>

\* ------------------------------------------------------------ specifications
Init == ConnInit /\ AddrIdle

Next ==
    \/ TorCheck /\ UNCHANGED avars
    \/ Connect /\ UNCHANGED avars
    \/ ProcessAct /\ UNCHANGED avars
    \/ WriteAll /\ UNCHANGED avars
    \/ ReadBuf /\ UNCHANGED avars
    \/ Cancel /\ UNCHANGED avars
    \/ PeerReply /\ UNCHANGED avars
    \/ PeerClose /\ UNCHANGED avars

Spec == Init /\ [][Next]_vars

InitAddr == AddrInit /\ ConnIdle

NextAddr ==
    \/ Parse /\ UNCHANGED cvars
    \/ Format /\ UNCHANGED cvars
    \/ Reparse /\ UNCHANGED cvars
    \/ Reformat /\ UNCHANGED cvars

SpecAddr == InitAddr /\ [][NextAddr]_vars


\* ------------------------------------------------------------ properties
IsOp(i, op) == i \in DOMAIN log /\ log[i].op = op
IoOps == {"connect", "write", "read"}

\* C1: when the target address is a Tor onion address, Connection::new
\* returns TorNotYetSupported and has done no I/O at all: no connect was
\* attempted, no handshake was created, nothing was written or read.
C1_TorRejectedBeforeIo ==
    (is_tor(node.inet_addr.address) /\ pc \notin {"start", "off"}) =>
        /\ pc = "done"
        /\ result = "TorNotYetSupported"
        /\ log = <<>>
        /\ stream = "none"
        /\ handshake = "none"
        /\ acts = <<>>
        /\ sent = <<>>
        /\ buf = <<>>
        /\ conn = NoConn

C1_Witness ==
    is_tor(node.inet_addr.address) /\ pc = "done" /\ result = "TorNotYetSupported"

\* C2: once the connection is returned as established, every Act that
\* process_act emitted has been written to the stream verbatim, the Act
\* returned together with the encryptor included.
C2_EveryActWritten ==
    result = "Ok" => sent = Concat([i \in DOMAIN acts |-> serialize(acts[i])])

\* C3: the handshake is strictly sequential: the first process_act call gets
\* empty input, nothing is read before Act 1 is written, writes and reads
\* alternate, and process_act for step N+1 is called only after the Act of
\* step N was written and the peer's reply to it was received in full.
C3_FirstCallEmpty ==
    \A i \in DOMAIN log :
        (IsOp(i, "process_act") /\ log[i].step = 0) => log[i].len = 0

C3_Alternation ==
    \A i \in DOMAIN log :
        /\ IsOp(i, "read")
              => i > 2 /\ IsOp(i - 1, "write") /\ log[i - 1].out = "ok"
        /\ IsOp(i, "write") => IsOp(i - 1, "process_act")
        /\ (IsOp(i, "process_act") /\ log[i].step > 0)
              => /\ IsOp(i - 1, "read")
                 /\ log[i - 1].out = "ok"
                 /\ log[i - 1].step = log[i].step - 1

C3_ReplyFullyReceived ==
    \A i \in DOMAIN log :
        (IsOp(i, "process_act") /\ log[i].step > 0)
            => /\ IsOp(i - 1, "read")
               /\ log[i - 1].len > 0
               /\ log[i].left = 0

C3_StrictlySequential ==
    C3_FirstCallEmpty /\ C3_Alternation /\ C3_ReplyFullyReceived

\* C4: when process_act reports a failure, Connection::new returns
\* FailedHandshake, and that call is the last thing the function did: no
\* further read or write, no second connect or handshake, no Connection.
C4_FailureIsFinal ==
    \A i \in DOMAIN log :
        (IsOp(i, "process_act") /\ log[i].out = "err") =>
            /\ i = Len(log)
            /\ pc = "done"
            /\ result = "FailedHandshake"
            /\ conn = NoConn
            /\ Count("connect", "ok") + Count("connect", "ioerr") = 1

C4_Witness ==
    /\ Len(log) > 0
    /\ log[Len(log)].op = "process_act"
    /\ log[Len(log)].out = "err"
    /\ log[Len(log)].step = 1
    /\ BLen(sent) = ActTwoLen
    /\ result = "FailedHandshake"

C6_IoErrorIsFinal ==
    \A i \in DOMAIN log :
        (log[i].op \in IoOps /\ log[i].out = "ioerr") =>
            /\ i = Len(log)
            /\ pc = "done"
            /\ result = "IoError"
            /\ conn = NoConn

C6_Witness ==
    /\ Len(log) > 0
    /\ log[Len(log)].op = "read"
    /\ log[Len(log)].out = "ioerr"
    /\ log[Len(log)].step = 1
    /\ result = "IoError"

\* C7: one handshake per call, resolved once: after process_act has yielded
\* the encryptor or an error it is not called again, and a Connection exists
\* only if the last process_act call yielded the encryptor.
C7_ResolvedOnce ==
    /\ Count("connect", "ok") <= 1
    /\ \A i \in DOMAIN log :
          (IsOp(i, "process_act") /\ (log[i].out = "err" \/ HasEnc(log[i].out)))
              => \A j \in DOMAIN log : IsOp(j, "process_act") => j <= i
    /\ handshake = "resolved" => pc = "done"
    /\ conn.established =>
          /\ handshake = "resolved"
          /\ result = "Ok"
          /\ log[Len(log)].op = "process_act"
          /\ HasEnc(log[Len(log)].out)

C7_Witness ==
    /\ conn.established
    /\ log[Len(log)].step = 1
    /\ log[Len(log)].len = ActTwoLen

\* What the grammar says the parse of a valid string is.
ExpectedAddr(k) ==
    [key |-> k.key,
     host |-> k.host,
     port |-> IF k.port = "absent" THEN LIGHTNING_P2P_DEFAULT_PORT ELSE k.portval]

\* C8: from_str succeeds for every valid  <node_id>@<host>[:<port>]  whose
\* host is an IPv4, IPv6 or onion literal; the port is the one given, or the
\* default port when none is given.
C8_ValidParses ==
    (apc \notin {"input", "off"} /\ ValidKind(kind)) =>
        /\ parsed.ok
        /\ parsed.val.node_id = ExpectedAddr(kind).key
        /\ parsed.val.inet_addr.address.kind = ExpectedAddr(kind).host
        /\ parsed.val.inet_addr.port = ExpectedAddr(kind).port

\* C9: for every valid address string, the parsed NodeAddr formats to a
\* string that parses to the same NodeAddr, and formatting that one gives
\* the same string again.
C9_RoundTrip ==
    ValidKind(kind) =>
        /\ apc \notin {"input", "off"} => parsed.ok
        /\ apc \in {"reparsed", "reshown"}
              => reparsed.ok /\ reparsed.val = parsed.val
        /\ apc = "reshown" => reshown = shown

\* C10: from_str fails for every malformed string (no '@' or more than one,
\* an invalid node id, an unparsable host, a bad port), and parsing does no
\* I/O.
C10_MalformedRejected ==
    (apc \notin {"input", "off"} /\ ~ValidKind(kind)) =>
        /\ ~parsed.ok
        /\ apc = "parsed"
        /\ log = <<>>
        /\ stream = "none"

C10_Witness ==
    /\ apc = "parsed"
    /\ kind.id = "ok" /\ kind.at = "ok" /\ kind.host = "IPv4"
    /\ kind.port = "bad"
    /\ ~parsed.ok


\* C11: when process_act returns neither an Act nor an encryptor,
\* Connection::new returns FailedHandshake; that call is the last thing the
\* function did (nothing written in that step, no further read) and no
\* Connection exists.
C11_NeitherIsFatal ==
    \A i \in DOMAIN log :
        (IsOp(i, "process_act") /\ log[i].out = "none") =>
            /\ i = Len(log)
            /\ pc = "done"
            /\ result = "FailedHandshake"
            /\ conn = NoConn
            /\ handshake # "active"
            /\ \A j \in DOMAIN log : IsOp(j, "write") => log[j].step < log[i].step
            /\ Count("write", "ok") = log[i].step

C11_Witness ==
    /\ Len(log) > 0
    /\ log[Len(log)].op = "process_act"
    /\ log[Len(log)].out = "none"
    /\ log[Len(log)].step = 1
    /\ result = "FailedHandshake"


\* C12: on every iteration after the first, the input given to process_act
\* is exactly the bytes the immediately preceding read delivered: no byte of
\* an earlier read, and every byte of the latest one.
C12_InputIsLastRead ==
    \A i \in DOMAIN log :
        (IsOp(i, "process_act") /\ log[i].step > 0) =>
            /\ IsOp(i - 1, "read")
            /\ log[i].data = log[i - 1].data


\* C13: whatever process_act and the peer produce, the step counter never
\* exceeds 2 and process_act is called at most three times, once per Act.
C13_StepAtMostTwo ==
    /\ step <= 2
    /\ Cardinality({i \in DOMAIN log : IsOp(i, "process_act")}) <= 3


\* C14: when Connection::new is cancelled at a suspension point, the
\* handshake state is discarded, no byte is written after the cancellation,
\* and no Connection (hence no encryptor of that handshake) exists.
C14_CancelDiscards ==
    \A i \in DOMAIN log :
        IsOp(i, "cancel") =>
            /\ i = Len(log)
            /\ pc = "cancelled"
            /\ result = "pending"
            /\ conn = NoConn
            /\ handshake \in {"none", "dropped"}
            /\ stream \in {"none", "closed"}
            /\ BLen(sent) = log[i].len

C14_Witness ==
    /\ pc = "cancelled"
    /\ handshake = "dropped"
    /\ step = 1
    /\ Len(log) > 1
    /\ log[Len(log)].op = "cancel"
    /\ log[Len(log) - 1].op = "write"


\* C15: at most one TCP connect per call, and only for an address that is
\* not Tor; the handshake object, every process_act call, every write and
\* every read come after a successful connect, and a failed connect is
\* followed by no handshake step and no Act.
C15_ConnectFirst ==
    /\ \A i \in DOMAIN log :
          IsOp(i, "connect") => i = 1 /\ ~is_tor(node.inet_addr.address)
    /\ \A i \in DOMAIN log :
          log[i].op \in {"process_act", "write", "read"}
              => i > 1 /\ IsOp(1, "connect") /\ log[1].out = "ok"
    /\ (handshake # "none" \/ stream # "none" \/ acts # <<>>)
          => IsOp(1, "connect") /\ log[1].out = "ok"
    /\ (IsOp(1, "connect") /\ log[1].out = "ioerr")
          => /\ Len(log) = 1
             /\ pc = "done"
             /\ result = "IoError"
             /\ handshake = "none"
             /\ acts = <<>>
             /\ sent = <<>>

C15_Witness ==
    /\ IsOp(1, "connect")
    /\ log[1].out = "ioerr"
    /\ result = "IoError"


\* C16: MAX_TRANSPORT_FRAME_SIZE is the size of the largest steady-state
\* frame, 2 + 16 + 65535 + 16 bytes, and the read buffer reserved with that
\* capacity holds any single handshake Act (50 or 66 bytes) and every read
\* of the handshake.
C16_FrameSize ==
    /\ MAX_TRANSPORT_FRAME_SIZE
          = FrameLengthBytes + TagBytes + MaxPayloadBytes + TagBytes
    /\ BufCapacity >= MAX_TRANSPORT_FRAME_SIZE
    /\ BufCapacity >= ActTwoLen
    /\ BufCapacity >= ActThreeLen
    /\ \A i \in DOMAIN log : IsOp(i, "read") => log[i].len <= BufCapacity
    /\ handshake = "active" => BLen(input) <= BufCapacity

C16_Witness ==
    /\ pc = "process_act"
    /\ step = 1
    /\ BLen(buf) = ActTwoLen
    /\ BLen(buf) <= BufCapacity


====
